---- MODULE Spec2Model ----
(***************************************************************************)
(* CustomBlockMemoryResource (src/include/memory_resource.hpp): a          *)
(* fixed-capacity first-fit block allocator over one arena, with the       *)
(* occupied-block index blocks_ kept as a vector of (offset, size)         *)
(* records.  All std::size_t arithmetic is modelled modulo 2^WordBits.     *)
(* Pointers are modelled as addresses (numbers) of the same width; the     *)
(* null pointer is address 0.                                              *)
(***************************************************************************)
EXTENDS Integers, Sequences, FiniteSets, TLC

(***************************************************************************)
(* Bounds of the model.                                                    *)
(***************************************************************************)
\* width of std::size_t (and of a pointer) in the model, in bits
WordBits == 5
\* largest capacity_bytes handed to the constructor
MaxCapacity == 3
\* largest buffer_alignment handed to the constructor; every value
\* 0..MaxCeiling is tried, powers of two or not
MaxCeiling == 4
\* the model takes no allocation that would leave more than this many
\* records in the index
MaxBlocks == 3

\* alignof(std::max_align_t): implementation-defined, scaled to the model's
\* word (16 on x86-64)
MaxAlignT == 4

\* 2^n
RECURSIVE Pow2(_)
Pow2(n) == IF n = 0 THEN 1 ELSE 2 * Pow2(n - 1)

\* number of values of std::size_t
SizeMod == Pow2(WordBits)

\* SIZE_MAX
SizeMax == SizeMod - 1

\* unsigned wrap-around of std::size_t arithmetic
Wrap(x) == x % SizeMod

\* bitwise AND of two std::size_t values
RECURSIVE BitAnd(_, _)
BitAnd(x, y) ==
    IF x = 0 \/ y = 0 THEN 0
    ELSE (x % 2) * (y % 2) + 2 * BitAnd(x \div 2, y \div 2)

\* the null pointer
NullPtr == 0

(***************************************************************************)
(* Inputs.                                                                 *)
(***************************************************************************)
\* capacity_bytes values tried by the constructor
Capacities == {0, MaxCapacity}

\* buffer_alignment values tried by the constructor
Ceilings == 0..MaxCeiling

\* byte counts requested from do_allocate: any std::size_t is a legal
\* argument of memory_resource::allocate; the model tries every count up to
\* one more than the capacity, and SIZE_MAX
ByteCounts == (0..(MaxCapacity + 1)) \cup {SizeMax}

\* alignments requested from do_allocate: 0 or a power of two
\* (the precondition of memory_resource::allocate), up to twice the largest
\* ceiling
Alignments == {0} \cup {a \in 1..(2 * MaxCeiling) : BitAnd(a, a - 1) = 0}

VARIABLES
    alive,              \* "none": not constructed yet, "constructed",
                        \* "failed": the constructor threw
    capacity_,          \* CustomBlockMemoryResource::capacity_
    buffer_alignment_,  \* CustomBlockMemoryResource::buffer_alignment_
    buffer_,            \* CustomBlockMemoryResource::buffer_ (an address)
    blocks_,            \* CustomBlockMemoryResource::blocks_
    last,               \* the last call: its arguments and its outcome
    queue,              \* the PmrQueue object: head_, tail_ (addresses,
                        \* or null), size_, and heap, the nodes it has
                        \* constructed in the arena, by address
    qlast,              \* the last call on the queue and its outcome
    pushed              \* history: the values pushed and not yet popped,
                        \* oldest first

\* the state of the queue (src/include/pmr_queue.hpp) and what is recorded
\* about it
qvars == <<queue, qlast, pushed>>

vars == <<alive, capacity_, buffer_alignment_, buffer_, blocks_, last,
          queue, qlast, pushed>>

\* struct Block
Block(offset, size) == [offset |-> offset, size |-> size]

\* the record of a call; exc is the C++ exception type thrown ("none" when
\* the call returned), err is the place in the code that threw it
Call(op, bytes, alignment, ptr, exc, err, offset, size, cursor, ret) ==
    [op |-> op, bytes |-> bytes, alignment |-> alignment, ptr |-> ptr,
     exc |-> exc, err |-> err, offset |-> offset, size |-> size,
     cursor |-> cursor, ret |-> ret]

NoCall == Call("none", 0, 0, 0, "none", "none", 0, 0, 0, 0)

\* the record of a call on the queue: the value pushed, the exception
\* thrown, the value front() returned and the values an iteration yielded
QCall(op, value, exc, ret, seen) ==
    [op |-> op, value |-> value, exc |-> exc, ret |-> ret, seen |-> seen]

NoQCall == QCall("none", 0, "none", 0, << >>)

\* the heap with no node in it
NoNodes == [p \in {} |-> [value |-> 0, next |-> NullPtr]]

\* a queue just constructed: head_{nullptr}, tail_{nullptr}, size_{0}
EmptyQueue == [head_ |-> NullPtr, tail_ |-> NullPtr, size_ |-> 0, heap |-> NoNodes]

QueueInit ==
    /\ queue = EmptyQueue
    /\ qlast = NoQCall
    /\ pushed = << >>

(***************************************************************************)
(* The constructor.                                                        *)
(***************************************************************************)
\* the constructor's test (buffer_alignment_ & (buffer_alignment_ - 1)) != 0
NotPowerOfTwoTest(buffer_alignment) ==
    BitAnd(buffer_alignment, Wrap(buffer_alignment - 1)) # 0

\* ::operator new(capacity_bytes, std::align_val_t(buffer_alignment)): the
\* address of the storage, a multiple of the alignment and not null
OperatorNew(buffer_alignment) ==
    IF buffer_alignment < 2 THEN 2 ELSE buffer_alignment

\* what the constructor does after its two tests passed: with a valid
\* alignment the storage is acquired; std::align_val_t(0) is not a valid
\* alignment and the behaviour of operator new is undefined: the library
\* either throws std::bad_alloc or returns storage
ConstructOutcomes(buffer_alignment) ==
    IF buffer_alignment = 0 THEN {"constructed", "bad_alloc"}
    ELSE {"constructed"}

Init ==
    /\ alive = "none"
    /\ capacity_ = 0
    /\ buffer_alignment_ = 0
    /\ buffer_ = NullPtr
    /\ blocks_ = << >>
    /\ last = NoCall
    /\ QueueInit

ConstructFails(capacity_bytes, buffer_alignment, exc, err) ==
    /\ alive' = "failed"
    /\ last' = Call("construct", capacity_bytes, buffer_alignment, NullPtr,
                    exc, err, 0, 0, 0, NullPtr)
    /\ UNCHANGED <<capacity_, buffer_alignment_, buffer_, blocks_>>

Construct ==
    /\ alive = "none"
    /\ UNCHANGED qvars
    /\ \E capacity_bytes \in Capacities, buffer_alignment \in Ceilings :
         IF capacity_bytes = 0
         THEN ConstructFails(capacity_bytes, buffer_alignment,
                             "invalid_argument", "InvalidConfiguration")
         ELSE IF NotPowerOfTwoTest(buffer_alignment)
         THEN ConstructFails(capacity_bytes, buffer_alignment,
                             "invalid_argument", "InvalidConfiguration")
         ELSE \E outcome \in ConstructOutcomes(buffer_alignment) :
                IF outcome = "bad_alloc"
                THEN ConstructFails(capacity_bytes, buffer_alignment,
                                    "bad_alloc", "OperatorNew")
                ELSE /\ alive' = "constructed"
                     /\ capacity_' = capacity_bytes
                     /\ buffer_alignment_' = buffer_alignment
                     /\ buffer_' = OperatorNew(buffer_alignment)
                     /\ blocks_' = << >>
                     /\ last' = Call("construct", capacity_bytes,
                                     buffer_alignment, NullPtr, "none", "none",
                                     0, 0, 0, OperatorNew(buffer_alignment))

(***************************************************************************)
(* allocate.                                                               *)
(***************************************************************************)
\* a faulty align_offset that rounds down to the multiple below
align_offset_down(offset, alignment) ==
    IF alignment = 0 THEN offset ELSE offset - (offset % alignment)

\* align_offset: offset rounded up to a multiple of alignment
align_offset(offset, alignment) ==
    IF alignment = 0 THEN offset
    ELSE LET remainder == offset % alignment
         IN  IF remainder = 0 THEN offset
             ELSE Wrap(offset + (alignment - remainder))

\* std::lower_bound over blocks[first+1 .. first+len] with the comparison
\* lhs.offset < rhs: the binary search of the library; the result is the
\* number of records before the insertion point
RECURSIVE lower_bound(_, _, _, _)
lower_bound(blocks, first, len, offset) ==
    IF len = 0 THEN first
    ELSE LET half == len \div 2
             middle == first + half
         IN  IF blocks[middle + 1].offset < offset
             THEN lower_bound(blocks, middle + 1, len - half - 1, offset)
             ELSE lower_bound(blocks, first, half, offset)

\* blocks_.insert(insert_pos, new_block)
InsertAt(blocks, pos, new_block) ==
    SubSeq(blocks, 1, pos) \o <<new_block>> \o SubSeq(blocks, pos + 1, Len(blocks))

\* commit_block: the index with the new record inserted at its lower bound
commit_block(blocks, offset, size) ==
    InsertAt(blocks, lower_bound(blocks, 0, Len(blocks), offset), Block(offset, size))

\* the outcome of do_allocate
AllocOk(blocks, buffer, offset, size, cursor) ==
    [exc |-> "none", err |-> "none", offset |-> offset, size |-> size,
     cursor |-> cursor, ret |-> Wrap(buffer + offset),
     blocks |-> commit_block(blocks, offset, size)]

AllocThrows(blocks, err) ==
    [exc |-> "bad_alloc", err |-> err, offset |-> 0, size |-> 0,
     cursor |-> 0, ret |-> NullPtr, blocks |-> blocks]

\* a faulty first_fit that records the block in the final gap before it
\* tests the gap against the capacity
RECURSIVE first_fit_commit_first(_, _, _, _, _, _, _)
first_fit_commit_first(blocks, buffer, capacity, i, current_offset, bytes, required_alignment) ==
    LET aligned_offset == align_offset(current_offset, required_alignment)
    IN  IF i <= Len(blocks)
        THEN IF Wrap(aligned_offset + bytes) <= blocks[i].offset
             THEN AllocOk(blocks, buffer, aligned_offset, bytes, current_offset)
             ELSE first_fit_commit_first(blocks, buffer, capacity, i + 1,
                                         Wrap(blocks[i].offset + blocks[i].size),
                                         bytes, required_alignment)
        ELSE IF Wrap(aligned_offset + bytes) > capacity
             THEN AllocThrows(commit_block(blocks, aligned_offset, bytes),
                              "OutOfMemory")
             ELSE AllocOk(blocks, buffer, aligned_offset, bytes, current_offset)

\* the loop of do_allocate from record i on, with the scan cursor
\* current_offset, and the test of the final gap after it
RECURSIVE first_fit(_, _, _, _, _, _, _)
first_fit(blocks, buffer, capacity, i, current_offset, bytes, required_alignment) ==
    LET aligned_offset == align_offset(current_offset, required_alignment)
    IN  IF i <= Len(blocks)
        THEN IF Wrap(aligned_offset + bytes) <= blocks[i].offset
             THEN AllocOk(blocks, buffer, aligned_offset, bytes, current_offset)
             ELSE first_fit(blocks, buffer, capacity, i + 1,
                            Wrap(blocks[i].offset + blocks[i].size),
                            bytes, required_alignment)
        ELSE IF Wrap(aligned_offset + bytes) > capacity
             THEN AllocThrows(blocks, "OutOfMemory")
             ELSE AllocOk(blocks, buffer, aligned_offset, bytes, current_offset)

\* alignment == 0 ? alignof(std::max_align_t) : alignment
RequiredAlignment(alignment) == IF alignment = 0 THEN MaxAlignT ELSE alignment

\* a faulty do_allocate that also refuses the ceiling itself
do_allocate_below_ceiling(blocks, buffer, capacity, buffer_alignment, bytes, alignment) ==
    LET bytes1 == IF bytes = 0 THEN 1 ELSE bytes
        required_alignment == RequiredAlignment(alignment)
    IN  IF required_alignment >= buffer_alignment
        THEN AllocThrows(blocks, "AlignmentExceeded")
        ELSE first_fit(blocks, buffer, capacity, 1, 0, bytes1, required_alignment)

\* do_allocate
do_allocate(blocks, buffer, capacity, buffer_alignment, bytes, alignment) ==
    LET bytes1 == IF bytes = 0 THEN 1 ELSE bytes
        required_alignment == RequiredAlignment(alignment)
    IN  IF required_alignment > buffer_alignment
        THEN AllocThrows(blocks, "AlignmentExceeded")
        ELSE first_fit(blocks, buffer, capacity, 1, 0, bytes1, required_alignment)

Allocate ==
    /\ alive = "constructed"
    /\ \E bytes \in ByteCounts, alignment \in Alignments :
         \E r \in {do_allocate(blocks_, buffer_, capacity_, buffer_alignment_,
                              bytes, alignment)} :
             /\ Len(r.blocks) <= MaxBlocks
             /\ blocks_' = r.blocks
             /\ last' = Call("allocate", bytes, alignment, NullPtr, r.exc, r.err,
                             r.offset, r.size, r.cursor, r.ret)
    /\ UNCHANGED <<alive, capacity_, buffer_alignment_, buffer_>>
    /\ UNCHANGED qvars

(***************************************************************************)
(* deallocate.                                                             *)
(***************************************************************************)
\* the pointers handed to do_deallocate: null, the address before the
\* arena, every address of the arena, its end and the address after it
Pointers(buffer, capacity) == {NullPtr} \cup ((buffer - 1)..(buffer + capacity + 1))

\* blocks_.erase(it)
EraseAt(blocks, i) == SubSeq(blocks, 1, i - 1) \o SubSeq(blocks, i + 1, Len(blocks))

\* a faulty loop that takes any address inside a record for the record
RECURSIVE find_and_erase_inside(_, _, _)
find_and_erase_inside(blocks, i, offset) ==
    IF i > Len(blocks)
    THEN [exc |-> "logic_error", err |-> "DoubleFreeOrUnmanaged",
          offset |-> offset, size |-> 0, blocks |-> blocks]
    ELSE IF blocks[i].offset <= offset /\ offset < blocks[i].offset + blocks[i].size
         THEN [exc |-> "none", err |-> "none", offset |-> offset,
               size |-> blocks[i].size, blocks |-> EraseAt(blocks, i)]
         ELSE find_and_erase_inside(blocks, i + 1, offset)

\* a faulty loop that erases the record found and all that follow it
RECURSIVE find_and_erase_rest(_, _, _)
find_and_erase_rest(blocks, i, offset) ==
    IF i > Len(blocks)
    THEN [exc |-> "logic_error", err |-> "DoubleFreeOrUnmanaged",
          offset |-> offset, size |-> 0, blocks |-> blocks]
    ELSE IF blocks[i].offset = offset
         THEN [exc |-> "none", err |-> "none", offset |-> offset,
               size |-> blocks[i].size, blocks |-> SubSeq(blocks, 1, i - 1)]
         ELSE find_and_erase_rest(blocks, i + 1, offset)

\* the loop of do_deallocate from record i on
RECURSIVE find_and_erase(_, _, _)
find_and_erase(blocks, i, offset) ==
    IF i > Len(blocks)
    THEN [exc |-> "logic_error", err |-> "DoubleFreeOrUnmanaged",
          offset |-> offset, size |-> 0, blocks |-> blocks]
    ELSE IF blocks[i].offset = offset
         THEN [exc |-> "none", err |-> "none", offset |-> offset,
               size |-> blocks[i].size, blocks |-> EraseAt(blocks, i)]
         ELSE find_and_erase(blocks, i + 1, offset)

\* a faulty do_deallocate whose range test lets the end of the arena through
do_deallocate_end_inside(blocks, buffer, capacity, ptr) ==
    IF ptr = NullPtr
    THEN [exc |-> "none", err |-> "NullIgnored", offset |-> 0, size |-> 0,
          blocks |-> blocks]
    ELSE IF ptr < buffer \/ ptr > buffer + capacity
    THEN [exc |-> "logic_error", err |-> "ForeignPointer", offset |-> 0,
          size |-> 0, blocks |-> blocks]
    ELSE find_and_erase(blocks, 1, ptr - buffer)

\* do_deallocate; the two hints are not read
do_deallocate(blocks, buffer, capacity, ptr) ==
    IF ptr = NullPtr
    THEN [exc |-> "none", err |-> "NullIgnored", offset |-> 0, size |-> 0,
          blocks |-> blocks]
    ELSE IF ptr < buffer \/ ptr >= buffer + capacity
    THEN [exc |-> "logic_error", err |-> "ForeignPointer", offset |-> 0,
          size |-> 0, blocks |-> blocks]
    ELSE find_and_erase(blocks, 1, ptr - buffer)

\* the (size, alignment) hints handed to do_deallocate with the pointer;
\* its second and third parameters are unnamed and never read
Hints == {<<1, 1>>, <<MaxCapacity, MaxAlignT>>}

Deallocate ==
    /\ alive = "constructed"
    /\ \E ptr \in Pointers(buffer_, capacity_), hint \in Hints :
         \E r \in {do_deallocate(blocks_, buffer_, capacity_, ptr)} :
             /\ blocks_' = r.blocks
             /\ last' = Call("deallocate", hint[1], hint[2], ptr, r.exc, r.err,
                             r.offset, r.size, 0, NullPtr)
    /\ UNCHANGED <<alive, capacity_, buffer_alignment_, buffer_>>
    /\ UNCHANGED qvars

Next == Construct \/ Allocate \/ Deallocate

Spec == Init /\ [][Next]_vars

(***************************************************************************)
(* PmrQueue<int> (src/include/pmr_queue.hpp): a singly linked queue whose  *)
(* nodes live in the arena of one CustomBlockMemoryResource.  Sizes are    *)
(* scaled as for the allocator: a quarter of the sizes of a 64-bit build,  *)
(* where sizeof(Node) = 16, alignof(Node) = 8, alignof(max_align_t) = 16.  *)
(***************************************************************************)
NodeSize == 4           \* sizeof(Node)
NodeAlign == 2          \* alignof(Node)
MaxNodes == 3           \* the nodes the largest arena has room for
MaxValue == 2           \* the values pushed are 1..MaxValue

Values == 1..MaxValue

\* the arenas a queue is put on: too small for a node, room for one node,
\* room for MaxNodes nodes and a rest
QueueCapacities == {NodeSize - 1, NodeSize, NodeSize * MaxNodes + 1}

\* the alignment ceilings of these arenas: the ones the constructor takes
QueueCeilings == {c \in Ceilings : c > 0 /\ ~NotPowerOfTwoTest(c)}

\* construct(new_node, value): Node{value, next(nullptr)} at that address
ConstructNode(heap, new_node, value) ==
    [p \in (DOMAIN heap) \cup {new_node} |->
        IF p = new_node THEN [value |-> value, next |-> NullPtr] ELSE heap[p]]

\* destroy(old_head)
DestroyNode(heap, old_head) == [p \in (DOMAIN heap) \ {old_head} |-> heap[p]]

\* empty()
empty(q) == q.head_ = NullPtr

\* a faulty link step that puts the new node in front of the head
link_front(q, new_node, value) ==
    LET heap == ConstructNode(q.heap, new_node, value)
    IN  IF q.tail_ = NullPtr
        THEN [head_ |-> new_node, tail_ |-> new_node,
              size_ |-> Wrap(q.size_ + 1), heap |-> heap]
        ELSE [head_ |-> new_node, tail_ |-> q.tail_,
              size_ |-> Wrap(q.size_ + 1),
              heap |-> [heap EXCEPT ![new_node].next = q.head_]]

\* emplace once allocate(1) has returned new_node: construct the node, link
\* it behind tail_, ++size_
link(q, new_node, value) ==
    LET heap == ConstructNode(q.heap, new_node, value)
    IN  IF q.tail_ = NullPtr
        THEN [head_ |-> new_node, tail_ |-> new_node,
              size_ |-> Wrap(q.size_ + 1), heap |-> heap]
        ELSE [head_ |-> q.head_, tail_ |-> new_node,
              size_ |-> Wrap(q.size_ + 1),
              heap |-> [heap EXCEPT ![q.tail_].next = new_node]]

\* emplace: allocator_.allocate(1) asks the resource for sizeof(Node) bytes
\* at alignof(Node); what it throws leaves emplace before anything is done
emplace(q, blocks, buffer, capacity, buffer_alignment, value) ==
    LET r == do_allocate(blocks, buffer, capacity, buffer_alignment,
                         NodeSize, NodeAlign)
    IN  IF r.exc # "none"
        THEN [exc |-> r.exc, queue |-> q, blocks |-> r.blocks, r |-> r]
        ELSE [exc |-> "none", queue |-> link(q, r.ret, value),
              blocks |-> r.blocks, r |-> r]

\* the outcome of a pop that never reached the allocator
NotFreed == [exc |-> "none", err |-> "none", offset |-> 0, size |-> 0]

\* a faulty pop that unlinks the head and never gives the node back
pop_leak(q, blocks, buffer, capacity) ==
    IF empty(q)
    THEN [exc |-> "out_of_range", queue |-> q, blocks |-> blocks,
          freed |-> NullPtr, r |-> NotFreed]
    ELSE LET old_head == q.head_
             head == q.heap[old_head].next
             tail == IF head = NullPtr THEN NullPtr ELSE q.tail_
         IN  [exc |-> "none",
              queue |-> [head_ |-> head, tail_ |-> tail,
                         size_ |-> Wrap(q.size_ - 1),
                         heap |-> DestroyNode(q.heap, old_head)],
              blocks |-> blocks, freed |-> NullPtr, r |-> NotFreed]

\* pop: throw on an empty queue; else unlink the head, reset tail_ when the
\* queue became empty, destroy the node, deallocate it, --size_.  What
\* deallocate throws leaves pop after the unlinking and before --size_
pop(q, blocks, buffer, capacity) ==
    IF empty(q)
    THEN [exc |-> "out_of_range", queue |-> q, blocks |-> blocks,
          freed |-> NullPtr, r |-> NotFreed]
    ELSE LET old_head == q.head_
             head == q.heap[old_head].next
             tail == IF head = NullPtr THEN NullPtr ELSE q.tail_
             r == do_deallocate(blocks, buffer, capacity, old_head)
             unlinked == [head_ |-> head, tail_ |-> tail, size_ |-> q.size_,
                          heap |-> DestroyNode(q.heap, old_head)]
         IN  IF r.exc # "none"
             THEN [exc |-> r.exc, queue |-> unlinked, blocks |-> r.blocks,
                   freed |-> old_head, r |-> r]
             ELSE [exc |-> "none",
                   queue |-> [unlinked EXCEPT !.size_ = Wrap(q.size_ - 1)],
                   blocks |-> r.blocks, freed |-> old_head, r |-> r]

\* a faulty front that returns from an empty queue without throwing
front_unchecked(q) ==
    IF empty(q)
    THEN [exc |-> "none", ret |-> 0]
    ELSE [exc |-> "none", ret |-> q.heap[q.head_].value]

\* front
front(q) ==
    IF empty(q)
    THEN [exc |-> "out_of_range", ret |-> 0]
    ELSE [exc |-> "none", ret |-> q.heap[q.head_].value]

\* for (value : queue): from begin() = iterator(head_), operator* reads
\* node_->value and operator++ moves to node_->next, until end() = nullptr
RECURSIVE Iterate(_, _)
Iterate(heap, node) ==
    IF node = NullPtr
    THEN << >>
    ELSE <<heap[node].value>> \o Iterate(heap, heap[node].next)

\* destroy_all: while (!empty()) pop(); call is the last call the
\* allocator has seen
RECURSIVE destroy_all(_, _, _, _, _)
destroy_all(q, blocks, buffer, capacity, call) ==
    IF empty(q)
    THEN [queue |-> q, blocks |-> blocks, call |-> call]
    ELSE LET p == pop(q, blocks, buffer, capacity)
         IN  destroy_all(p.queue, p.blocks, buffer, capacity,
                         Call("deallocate", NodeSize, NodeAlign, p.freed,
                              p.r.exc, p.r.err, p.r.offset, p.r.size, 0,
                              NullPtr))

\* a queue just constructed on an allocator just constructed
InitQueue ==
    /\ alive = "constructed"
    /\ capacity_ \in QueueCapacities
    /\ buffer_alignment_ \in QueueCeilings
    /\ buffer_ = OperatorNew(buffer_alignment_)
    /\ blocks_ = << >>
    /\ last = Call("construct", capacity_, buffer_alignment_, NullPtr, "none",
                   "none", 0, 0, 0, buffer_)
    /\ QueueInit

\* queue.push(value) / queue.emplace(value)
Push ==
    /\ \E value \in Values :
         \E e \in {emplace(queue, blocks_, buffer_, capacity_,
                            buffer_alignment_, value)} :
             /\ queue' = e.queue
             /\ blocks_' = e.blocks
             /\ last' = Call("allocate", NodeSize, NodeAlign, NullPtr, e.r.exc,
                             e.r.err, e.r.offset, e.r.size, e.r.cursor, e.r.ret)
             /\ qlast' = QCall("push", value, e.exc, 0, << >>)
             /\ pushed' = IF e.exc = "none" THEN Append(pushed, value)
                                            ELSE pushed
    /\ UNCHANGED <<alive, capacity_, buffer_alignment_, buffer_>>

\* queue.pop()
Pop ==
    /\ \E p \in {pop(queue, blocks_, buffer_, capacity_)} :
           /\ queue' = p.queue
           /\ blocks_' = p.blocks
           /\ last' = IF p.exc = "out_of_range"
                      THEN last
                      ELSE Call("deallocate", NodeSize, NodeAlign, p.freed,
                                p.r.exc, p.r.err, p.r.offset, p.r.size, 0,
                                NullPtr)
           /\ qlast' = QCall("pop", 0, p.exc, 0, << >>)
           /\ pushed' = IF p.exc = "none" THEN Tail(pushed) ELSE pushed
    /\ UNCHANGED <<alive, capacity_, buffer_alignment_, buffer_>>

\* queue.front()
Front ==
    /\ LET f == front(queue)
       IN  qlast' = QCall("front", 0, f.exc, f.ret, << >>)
    /\ UNCHANGED <<alive, capacity_, buffer_alignment_, buffer_, blocks_, last,
                   queue, pushed>>

\* for (int value : queue) collected.push_back(value)
Traverse ==
    /\ qlast' = QCall("iterate", 0, "none", 0, Iterate(queue.heap, queue.head_))
    /\ UNCHANGED <<alive, capacity_, buffer_alignment_, buffer_, blocks_, last,
                   queue, pushed>>

\* queue = PmrQueue<int>(&resource): move assignment from an empty queue on
\* the same resource runs destroy_all() and takes over head_, tail_, size_
MoveAssign ==
    /\ \E d \in {destroy_all(queue, blocks_, buffer_, capacity_, last)} :
           /\ queue' = [d.queue EXCEPT !.head_ = EmptyQueue.head_,
                                       !.tail_ = EmptyQueue.tail_,
                                       !.size_ = EmptyQueue.size_]
           /\ blocks_' = d.blocks
           /\ last' = d.call
    /\ qlast' = QCall("move_assign", 0, "none", 0, << >>)
    /\ pushed' = << >>
    /\ UNCHANGED <<alive, capacity_, buffer_alignment_, buffer_>>

NextQueue == Push \/ Pop \/ Front \/ Traverse \/ MoveAssign

SpecQueue == InitQueue /\ [][NextQueue]_vars

(***************************************************************************)
(* Vocabulary of the properties.  The byte range of a record is the        *)
(* mathematical interval [offset, offset + size): nothing wraps here.      *)
(***************************************************************************)
\* the byte ranges of two records do not intersect
Disjoint(b1, b2) ==
    \/ b1.offset + b1.size <= b2.offset
    \/ b2.offset + b2.size <= b1.offset

\* x is a power of two
IsPowerOfTwo(x) == \E k \in 0..(WordBits - 1) : x = Pow2(k)

\* the last call was an allocate that returned
AllocReturned == last.op = "allocate" /\ last.exc = "none"

\* C1: the byte ranges of any two distinct records of the index are
\* disjoint, in every reachable state
C1_NoOverlap ==
    \A i, j \in 1..Len(blocks_) :
        i # j => Disjoint(blocks_[i], blocks_[j])

\* C2: no record of the index extends past the end of the arena, and the
\* record a successful allocate created has offset + size <= capacity, for
\* every byte count of the size type
C2_CapacityBound ==
    /\ \A i \in 1..Len(blocks_) :
         blocks_[i].offset + blocks_[i].size <= capacity_
    /\ AllocReturned => last.offset + last.size <= capacity_

\* C3: a successful allocate(n, a) returns an offset that is a multiple of
\* a when a > 0 (and so is the address, the base being aligned to the
\* ceiling), and a multiple of alignof(std::max_align_t) when a = 0; the
\* offset is the scan cursor rounded up: never below the cursor and less
\* than one alignment above it
C3_Alignment ==
    AllocReturned =>
        /\ last.alignment > 0 =>
             /\ last.offset % last.alignment = 0
             /\ last.alignment <= buffer_alignment_
             /\ last.ret % last.alignment = 0
        /\ last.alignment = 0 =>
             /\ last.offset % MaxAlignT = 0
             /\ last.ret % MaxAlignT = 0
        /\ last.ret = buffer_ + last.offset
        /\ last.offset >= last.cursor
        /\ last.offset - last.cursor < RequiredAlignment(last.alignment)

\* C3's case: an allocate placed strictly above the scan cursor, which was
\* not a multiple of the requested alignment
C3_Witness ==
    /\ AllocReturned
    /\ last.alignment > 1
    /\ last.cursor % last.alignment # 0
    /\ last.offset > last.cursor

\* the size do_allocate gives the record of a request of bytes bytes
NormalizedBytes(bytes) == IF bytes = 0 THEN 1 ELSE bytes

\* the offsets where a request of n bytes at alignment a may be placed: a
\* multiple of a, inside the arena, intersecting no record of blocks
FreePositions(blocks, capacity, n, a) ==
    {o \in 0..capacity :
        /\ o % a = 0
        /\ o + n <= capacity
        /\ \A i \in 1..Len(blocks) : Disjoint(Block(o, n), blocks[i])}

\* the least element of a non-empty set of numbers
Least(S) == CHOOSE x \in S : \A y \in S : x <= y

\* C4: every successful allocate(n, a) places the record at the least
\* offset that is a multiple of a, inside the arena and free in the index
\* as it was before the call (the first gap that fits)
C4_FirstFit ==
    [][(last'.op = "allocate" /\ last'.exc = "none") =>
         LET free == FreePositions(blocks_, capacity_,
                                   NormalizedBytes(last'.bytes),
                                   RequiredAlignment(last'.alignment))
         IN  free # {} /\ last'.offset = Least(free)]_vars

\* C5: right after a successful deallocate of the record (o, s), an
\* allocate(n, a) with n <= s, with o a multiple of a and a within the
\* alignment ceiling, succeeds and returns an offset <= o
C5_ReuseAfterFree ==
    [][(/\ last.op = "deallocate" /\ last.err = "none"
        /\ last'.op = "allocate"
        /\ NormalizedBytes(last'.bytes) <= last.size
        /\ RequiredAlignment(last'.alignment) <= buffer_alignment_
        /\ last.offset % RequiredAlignment(last'.alignment) = 0)
       => (last'.exc = "none" /\ last'.offset <= last.offset)]_vars

\* the records of blocks fill the arena exactly: they lie end to end from
\* offset 0 to capacity
RECURSIVE EndToEnd(_, _, _)
EndToEnd(blocks, i, from) ==
    IF i > Len(blocks) THEN TRUE
    ELSE /\ blocks[i].offset = from
         /\ blocks[i].size > 0
         /\ EndToEnd(blocks, i + 1, from + blocks[i].size)

RECURSIVE TotalSize(_, _)
TotalSize(blocks, i) ==
    IF i > Len(blocks) THEN 0 ELSE blocks[i].size + TotalSize(blocks, i + 1)

FillsArena(blocks, capacity) ==
    /\ Len(blocks) > 0
    /\ EndToEnd(blocks, 1, 0)
    /\ TotalSize(blocks, 1) = capacity

\* C6: while the records fill the arena exactly, every allocate throws
\* std::bad_alloc and changes nothing; and right after one of the records
\* of a full arena is deallocated, an allocate of that record's size
\* (at alignment 1) succeeds
C6_ExhaustionRecovery ==
    /\ FillsArena(blocks_, capacity_) =>
         \A bytes \in ByteCounts, alignment \in Alignments :
            LET r == do_allocate(blocks_, buffer_, capacity_,
                                 buffer_alignment_, bytes, alignment)
            IN  r.exc = "bad_alloc" /\ r.blocks = blocks_
    /\ (/\ last.op = "deallocate" /\ last.err = "none"
        /\ FillsArena(commit_block(blocks_, last.offset, last.size), capacity_))
       => do_allocate(blocks_, buffer_, capacity_, buffer_alignment_,
                      last.size, 1).exc = "none"

\* the start offsets of the records of blocks
Offsets(blocks) == {blocks[i].offset : i \in 1..Len(blocks)}

\* ptr lies in [buffer_, buffer_ + capacity_)
InArena(ptr) == buffer_ <= ptr /\ ptr < buffer_ + capacity_

\* the allocator's own state is left as it was
AllocatorUnchanged ==
    UNCHANGED <<alive, capacity_, buffer_alignment_, buffer_, blocks_>>

\* C7: a deallocate of a pointer inside the arena whose offset is not the
\* start offset of a record throws std::logic_error (DoubleFreeOrUnmanaged)
\* and leaves the index and the rest of the allocator as they were
C7_UnmanagedRejected ==
    [][(/\ last'.op = "deallocate"
        /\ InArena(last'.ptr)
        /\ (last'.ptr - buffer_) \notin Offsets(blocks_))
       => (/\ last'.exc = "logic_error"
           /\ last'.err = "DoubleFreeOrUnmanaged"
           /\ AllocatorUnchanged)]_vars

\* C7's case: the rejected pointer is an interior address of a live record
C7_Witness ==
    /\ last.op = "deallocate"
    /\ last.err = "DoubleFreeOrUnmanaged"
    /\ \E i \in 1..Len(blocks_) :
         /\ blocks_[i].offset < last.ptr - buffer_
         /\ last.ptr - buffer_ < blocks_[i].offset + blocks_[i].size
         /\ blocks_[i].offset + blocks_[i].size <= capacity_

\* C8 as stated: a deallocate of any pointer outside
\* [buffer_, buffer_ + capacity_), the null pointer and buffer_ + capacity_
\* included, throws std::logic_error (ForeignPointer) and leaves the index
\* unchanged
C8_ForeignRejectedAll ==
    [][(last'.op = "deallocate" /\ ~InArena(last'.ptr))
       => (/\ last'.exc = "logic_error"
           /\ last'.err = "ForeignPointer"
           /\ AllocatorUnchanged)]_vars

\* C8 amended: a deallocate of a pointer outside the arena that is not
\* null, buffer_ + capacity_ included, throws std::logic_error
\* (ForeignPointer); a deallocate of the null pointer returns without an
\* error; both leave the index unchanged
C8_ForeignRejected ==
    [][(last'.op = "deallocate" /\ ~InArena(last'.ptr))
       => (/\ AllocatorUnchanged
           /\ last'.ptr # NullPtr =>
                last'.exc = "logic_error" /\ last'.err = "ForeignPointer"
           /\ last'.ptr = NullPtr => last'.exc = "none")]_vars

\* C8's case: the end of the arena was handed to deallocate while the
\* index held a record
C8_Witness ==
    /\ last.op = "deallocate"
    /\ last.ptr = buffer_ + capacity_
    /\ last.err = "ForeignPointer"
    /\ Len(blocks_) > 0

\* C9: an allocate or deallocate that throws leaves the index, the
\* capacity and the alignment ceiling as they were
C9_NoPartialSuccess ==
    [][(last'.op \in {"allocate", "deallocate"} /\ last'.exc # "none")
       => AllocatorUnchanged]_vars

\* C9's case: an allocate failed for lack of a gap while the index held a
\* record
C9_Witness ==
    /\ last.op = "allocate"
    /\ last.err = "OutOfMemory"
    /\ Len(blocks_) > 0

\* C10: the constructor throws std::invalid_argument exactly when
\* capacity_bytes is 0 or buffer_alignment is not a power of two (0 is not
\* one), and an allocator exists only when capacity > 0 and the ceiling is
\* a power of two
C10_ConstructValidation ==
    /\ last.op = "construct" =>
         (last.exc = "invalid_argument"
            <=> (last.bytes = 0 \/ ~IsPowerOfTwo(last.alignment)))
    /\ last.op = "construct" /\ last.exc # "none" => alive = "failed"
    /\ alive = "constructed" =>
         capacity_ > 0 /\ IsPowerOfTwo(buffer_alignment_)

\* C11: an allocate fails with AlignmentExceeded (std::bad_alloc thrown by
\* the ceiling test) exactly when the required alignment, a or
\* alignof(std::max_align_t) for a = 0, is greater than the ceiling,
\* whatever the index holds
C11_AlignmentCeiling ==
    last.op = "allocate" =>
        /\ last.err = "AlignmentExceeded"
             <=> RequiredAlignment(last.alignment) > buffer_alignment_
        /\ last.err = "AlignmentExceeded" => last.exc = "bad_alloc"

\* C11's case: the request was refused for its alignment although the
\* index, which holds a record, has room for it at alignment 1
C11_Witness ==
    /\ last.op = "allocate"
    /\ last.err = "AlignmentExceeded"
    /\ Len(blocks_) > 0
    /\ buffer_alignment_ > 0
    /\ FreePositions(blocks_, capacity_, NormalizedBytes(last.bytes), 1) # {}

\* what the caller of a failed call sees: the type of the exception thrown
\* at the place err of the code and its what() text (std::bad_alloc is
\* default-constructed at both of its places and carries no text of its own)
Observed(err) ==
    CASE err = "AlignmentExceeded" -> <<"bad_alloc", "std::bad_alloc">>
      [] err = "OutOfMemory" -> <<"bad_alloc", "std::bad_alloc">>
      [] err = "ForeignPointer" ->
            <<"logic_error", "Pointer does not belong to this resource">>
      [] err = "DoubleFreeOrUnmanaged" ->
            <<"logic_error", "Attempt to deallocate unmanaged block">>
      [] OTHER -> <<"none", "">>

\* the places where a call of op can fail
ErrorsOf(op) ==
    IF op = "allocate" THEN {"AlignmentExceeded", "OutOfMemory"}
    ELSE IF op = "deallocate" THEN {"ForeignPointer", "DoubleFreeOrUnmanaged"}
    ELSE {}

\* C12: what the caller sees of a failed allocate or deallocate (on an
\* allocator whose ceiling is a power of two) tells the failure apart from
\* every other failure of that operation
C12_Distinguishable ==
    (/\ last.op \in {"allocate", "deallocate"} /\ last.exc # "none"
     /\ IsPowerOfTwo(buffer_alignment_)) =>
        /\ Observed(last.err)[1] = last.exc
        /\ \A e \in ErrorsOf(last.op) \ {last.err} :
              Observed(e) # Observed(last.err)

\* blocks without its i-th record, the others in their order
Without(blocks, i) ==
    [j \in 1..(Len(blocks) - 1) |-> IF j < i THEN blocks[j] ELSE blocks[j + 1]]

Contents(q) == Iterate(q.heap, q.head_)

\* C14: in every step of a queue on the allocator, the elements linked from
\* head_ are the values pushed and not yet popped, in the order they were
\* pushed; a front() that returns returns the oldest of them; an iteration
\* from begin() to end() yields exactly them, in that order, and leaves the
\* queue and the index as they were
C14_Fifo ==
    [][/\ Contents(queue') = pushed'
       /\ (qlast'.op = "front" /\ qlast'.exc = "none")
             => (pushed # << >> /\ qlast'.ret = pushed[1])
       /\ (qlast'.op = "pop" /\ qlast'.exc = "none")
             => (pushed # << >> /\ Contents(queue') = Tail(Contents(queue)))
       /\ qlast'.op = "iterate"
             => (/\ qlast'.seen = pushed
                 /\ queue' = queue
                 /\ blocks_' = blocks_)]_vars

\* C14's case: front() returned the older of two different values after
\* the value before them had been popped and its node given back
C14_Witness ==
    /\ qlast.op = "front"
    /\ qlast.exc = "none"
    /\ last.op = "deallocate"
    /\ Len(pushed) >= 2
    /\ pushed[1] # pushed[2]
    /\ qlast.ret = pushed[1]

\* C15: pop and front on a queue that holds no element throw
\* std::out_of_range and leave the queue and the index as they were, on a
\* queue that holds an element they do not throw it; empty() is true
\* exactly when the queue holds no element
C15_EmptyContainer ==
    [][/\ empty(queue') <=> (pushed' = << >>)
       /\ qlast'.op \in {"pop", "front"}
             => IF pushed = << >>
                THEN /\ qlast'.exc = "out_of_range"
                     /\ queue' = queue
                     /\ blocks_' = blocks_
                ELSE qlast'.exc # "out_of_range"]_vars

\* C15's case: pop threw on a queue emptied by as many pops as pushes
C15_Witness ==
    /\ qlast.op = "pop"
    /\ qlast.exc = "out_of_range"
    /\ last.op = "deallocate"
    /\ last.exc = "none"
    /\ empty(queue)

\* a push that threw left the queue and the index as they were
PushFailedClean ==
    (qlast'.op = "push" /\ qlast'.exc # "none")
        => (queue' = queue /\ blocks_' = blocks_)

\* the index has one record for each element of the queue
OneRecordEach ==
    /\ Len(blocks_') = queue'.size_
    /\ Len(blocks_') = Len(pushed')
    /\ Offsets(blocks_') = {p - buffer_ : p \in DOMAIN queue'.heap}

\* C16 as stated: the index has one record for each element, and a push
\* throws only when no gap of the arena fits a node, leaving the queue
\* unchanged
C16_RecycledAll ==
    [][/\ OneRecordEach
       /\ PushFailedClean
       /\ (qlast'.op = "push" /\ qlast'.exc # "none")
             => FreePositions(blocks_, capacity_, NodeSize, NodeAlign) = {}]_vars

\* C16, amended: the index has one record for each element, and a push
\* throws exactly when alignof(Node) is above the alignment ceiling of the
\* arena or no gap of the arena fits a node, leaving the queue unchanged
C16_Recycled ==
    [][/\ OneRecordEach
       /\ PushFailedClean
       /\ qlast'.op = "push"
             => ((qlast'.exc # "none") <=>
                   \/ NodeAlign > buffer_alignment_
                   \/ FreePositions(blocks_, capacity_, NodeSize, NodeAlign)
                         = {})]_vars

\* C16's case: a push took the place of a popped node, at the start of the
\* arena, while the queue held other elements
C16_Witness ==
    /\ qlast.op = "push"
    /\ qlast.exc = "none"
    /\ last.offset = 0
    /\ Len(pushed) >= 2
    /\ Len(blocks_) = Len(pushed)

\* C17: the index is sorted strictly ascending by offset, in every
\* reachable state: no two records share an offset, allocate puts the new
\* record at its ordered position and deallocate keeps the others in order
C17_SortedIndex ==
    \A i \in 1..(Len(blocks_) - 1) : blocks_[i].offset < blocks_[i + 1].offset

\* C18: an allocate of n bytes (0 counted as 1) at an alignment a within
\* the ceiling throws at the final-gap test (OutOfMemory) exactly when no
\* multiple o of a has o + n <= capacity_ and [o, o + n) disjoint from
\* every record; when there is such an offset the call returns
C18_OutOfMemoryExact ==
    [][(/\ last'.op = "allocate"
        /\ RequiredAlignment(last'.alignment) <= buffer_alignment_)
       => LET free == FreePositions(blocks_, capacity_,
                                    NormalizedBytes(last'.bytes),
                                    RequiredAlignment(last'.alignment))
          IN  /\ (last'.err = "OutOfMemory") <=> (free = {})
              /\ (free # {}) => (last'.exc = "none")]_vars

\* the call c was a deallocate that removed a record
Released(c) == c.op = "deallocate" /\ c.exc = "none" /\ c.ptr # NullPtr

\* C19: when two deallocates in a row have removed two records that were
\* live together and adjacent in the arena (in either order), an allocate
\* of the sum of their sizes, at any alignment within the ceiling that
\* divides the lower offset, returns, with an offset at or below the lower
\* offset
C19_ImplicitMerge ==
    [][(/\ Released(last)
        /\ Released(last')
        /\ \/ last.offset + last.size = last'.offset
           \/ last'.offset + last'.size = last.offset
        /\ last.size + last'.size <= SizeMax)
       => LET lower == IF last.offset < last'.offset THEN last.offset
                                                     ELSE last'.offset
          IN  \A alignment \in Alignments :
                (/\ RequiredAlignment(alignment) <= buffer_alignment_
                 /\ lower % RequiredAlignment(alignment) = 0)
                => LET r == do_allocate(blocks_', buffer_, capacity_,
                                        buffer_alignment_,
                                        last.size + last'.size, alignment)
                   IN  r.exc = "none" /\ r.offset <= lower]_vars

\* C20: a deallocate of a non-null pointer returns exactly when a record
\* of the index starts at the address, whatever the hints are and whichever
\* call returned the pointer, and then a record that starts there is gone;
\* so the deallocate of a pointer that the last allocate returned removes
\* the record of that allocate
C20_OffsetIdentity ==
    [][(last'.op = "deallocate" /\ last'.ptr # NullPtr)
       => /\ (last'.exc = "none")
                <=> (\E i \in 1..Len(blocks_) :
                        buffer_ + blocks_[i].offset = last'.ptr)
          /\ (last'.exc = "none")
                => (\E i \in 1..Len(blocks_) :
                        /\ buffer_ + blocks_[i].offset = last'.ptr
                        /\ blocks_' = Without(blocks_, i))
          /\ (AllocReturned /\ last'.ptr = last.ret)
                => (/\ last'.exc = "none"
                    /\ last'.size = last.size)]_vars
====
